---- MODULE Spec2Model ----
(***************************************************************************)
(* A model of larascript-mail: MailService (a registry of named mail       *)
(* adapters, locale injection, dispatch of send with log-and-rethrow),     *)
(* MailConfig.define, BaseMailAdapter.generateBodyString and the           *)
(* LocalMailDriver.                                                        *)
(*                                                                         *)
(* JavaScript runs every handler to completion up to its next await, so an *)
(* action is the synchronous stretch of code between two awaits.  The      *)
(* logger and the view renderer are injected before use (the               *)
(* RequiresDependency contract); the renderer and the transport answer     *)
(* nondeterministically with success or failure.                           *)
(***************************************************************************)
EXTENDS Integers, Sequences, FiniteSets, TLC

VARIABLES
    mailConfig,     \* MailService.mailConfig: [default, drivers]
    localesConfig,  \* MailService.localesConfig: key -> locale value
    adapters,       \* BaseAdapter.adapters: registered name -> instance id
    instances,      \* every adapter object constructed so far, by id
    boots,          \* number of boot() calls made
    mails,          \* the Mail objects of the callers, by id
    calls,          \* the MailService.send calls, by id
    now,            \* the clock read by new Date()
    lookup          \* result of the last getDriver / getDefaultDriver call

vars == <<mailConfig, localesConfig, adapters, instances, boots, mails, calls, now, lookup>>

(***************************************************************************)
(* Bounds                                                                  *)
(***************************************************************************)
MaxDrivers == 2     \* entries of a configuration
MaxBoots == 2       \* boot() calls
MaxSends == 2       \* send() calls, possibly in flight together

(***************************************************************************)
(* Maps (JavaScript objects with string keys)                              *)
(***************************************************************************)
EmptyMap == [k \in {} |-> 0]

One(k, v) == [x \in {k} |-> v]

\* { ...f, ...g }: the keys of both, g's value where both have the key
Spread(f, g) == [k \in (DOMAIN f) \cup (DOMAIN g) |-> IF k \in DOMAIN g THEN g[k] ELSE f[k]]

IndexKey(i) == CASE i = 1 -> "0" [] i = 2 -> "1" [] OTHER -> "n"

\* { ...arr }: spreading an array gives one key per index
SpreadArray(arr) == [k \in {IndexKey(i) : i \in 1..Len(arr)} |->
                        arr[CHOOSE i \in 1..Len(arr) : IndexKey(i) = k]]

(***************************************************************************)
(* Values                                                                  *)
(***************************************************************************)
\* an entry of the locale object: a configured string, or a Date
LStr(s) == [tag |-> "str", s |-> s, t |-> 0]
LDate(t) == [tag |-> "date", s |-> "", t |-> t]

\* an entry of a template's data: a caller's value, or the locales object
DUser(s) == [tag |-> "user", s |-> s, loc |-> EmptyMap]
DLocales(loc) == [tag |-> "locales", s |-> "", loc |-> loc]

\* constructor options: undefined, or an object
Undefined == [defined |-> FALSE, map |-> EmptyMap]
Obj(m) == [defined |-> TRUE, map |-> m]
EmptyObject == Obj(EmptyMap)

\* errors
NoError == [type |-> "none", detail |-> ""]
AdapterException(name) == [type |-> "AdapterException", detail |-> name]
RenderErrors == {[type |-> "RenderError", detail |-> "view not found"],
                 [type |-> "RenderError", detail |-> "syntax error"]}
TransportErrors == {[type |-> "TransportError", detail |-> "Unauthorized"]}

(***************************************************************************)
(* Configuration                                                           *)
(***************************************************************************)
Names == {"local", "resend"}
UnknownName == "smtp"
NoArg == "<default>"                \* send called without a driver name
Drivers == {"LocalMailDriver", "ResendMailDriver"}
OptionInputs == {Undefined, Obj(One("apiKey", "k"))}

Define(name, driver, options) ==
    [name |-> name, driver |-> driver,
     options |-> IF options.defined THEN options ELSE EmptyObject]

Entries == {Define(n, d, o) : n \in Names, d \in Drivers, o \in OptionInputs}

SeqsUpTo(S, n) == UNION {[1..k -> S] : k \in 0..n}

\* every configuration of at most MaxDrivers entries
Configs == [default : Names \cup {UnknownName}, drivers : SeqsUpTo(Entries, MaxDrivers)]

\* the configuration of the README: each driver under its own name
ReadmeDrivers == <<Define("local", "LocalMailDriver", EmptyObject),
                   Define("resend", "ResendMailDriver", Obj(One("apiKey", "k")))>>

ReadmeConfig == [default |-> "local", drivers |-> ReadmeDrivers]

\* a locale configuration that has a date entry of its own
LocaleConfig == Spread(One("appName", LStr("app")), One("date", LStr("configured")))

(***************************************************************************)
(* Adapters                                                                *)
(***************************************************************************)
\* new LocalMailDriver(options): the options are not kept
LocalMailDriver(options) == [driver |-> "LocalMailDriver", options |-> Undefined]

\* new ResendMailDriver(options): the options are kept
ResendMailDriver(options) == [driver |-> "ResendMailDriver", options |-> options]

\* new adapterConstructor(options)
NewAdapter(driver, options) ==
    IF driver = "LocalMailDriver" THEN LocalMailDriver(options)
                                  ELSE ResendMailDriver(options)

LocalGetOptions(adapter) == EmptyObject

ResendGetOptions(adapter) == adapter.options

\* adapter.getOptions()
GetOptions(adapter) ==
    IF adapter.driver = "LocalMailDriver" THEN LocalGetOptions(adapter)
                                          ELSE ResendGetOptions(adapter)

(***************************************************************************)
(* The registry (BaseAdapter)                                              *)
(***************************************************************************)
\* addAdapterOnce(name, adapter): a name already registered keeps its adapter
AddAdapterOnce(reg, name, id) ==
    IF name \in DOMAIN reg THEN reg ELSE Spread(reg, One(name, id))

\* getAdapter(name): the registered adapter, or a failure
GetAdapter(reg, name) ==
    IF name \in DOMAIN reg
    THEN [ok |-> TRUE, inst |-> reg[name], error |-> NoError]
    ELSE [ok |-> FALSE, inst |-> 0, error |-> AdapterException(name)]

NoLookup == [ok |-> FALSE, inst |-> 0, error |-> NoError]

getDriver(name) == GetAdapter(adapters, name)

getDefaultDriver == GetAdapter(adapters, mailConfig.default)

(***************************************************************************)
(* boot()                                                                  *)
(***************************************************************************)
\* a boot that constructs the adapters without their options
BootEntryNoOptions(st, i, b) ==
    LET driverConfig == mailConfig.drivers[i]
        made == [obj |-> NewAdapter(driverConfig.driver, Undefined),
                 arg |-> Undefined,
                 entry |-> i, boot |-> b]
        insts == Append(st.insts, made)
    IN  [reg |-> AddAdapterOnce(st.reg, driverConfig.name, Len(insts)),
         insts |-> insts]

\* one turn of the forEach: construct the adapter, then register it once.
\* st = [reg, insts]; the new object gets the next id whether or not it is kept
BootEntry(st, i, b) ==
    LET driverConfig == mailConfig.drivers[i]
        made == [obj |-> NewAdapter(driverConfig.driver, driverConfig.options),
                 arg |-> driverConfig.options,
                 entry |-> i, boot |-> b]
        insts == Append(st.insts, made)
    IN  [reg |-> AddAdapterOnce(st.reg, driverConfig.name, Len(insts)),
         insts |-> insts]

RECURSIVE BootFrom(_, _, _)
BootFrom(st, i, b) ==
    IF i > Len(mailConfig.drivers) THEN st
    ELSE BootFrom(BootEntry(st, i, b), i + 1, b)

Boot ==
    /\ boots < MaxBoots
    /\ LET st == BootFrom([reg |-> adapters, insts |-> instances], 1, boots + 1)
       IN  /\ adapters' = st.reg
           /\ instances' = st.insts
    /\ boots' = boots + 1
    /\ UNCHANGED <<mailConfig, localesConfig, mails, calls, now, lookup>>

GetDriver(name) ==
    /\ lookup' = getDriver(name)
    /\ UNCHANGED <<mailConfig, localesConfig, adapters, instances, boots, mails, calls, now>>

GetDefaultDriver ==
    /\ lookup' = getDefaultDriver
    /\ UNCHANGED <<mailConfig, localesConfig, adapters, instances, boots, mails, calls, now>>

(***************************************************************************)
(* The registry alone, over every configuration                            *)
(***************************************************************************)
InitRegistry ==
    /\ mailConfig \in Configs
    /\ localesConfig = LocaleConfig
    /\ adapters = EmptyMap
    /\ instances = <<>>
    /\ boots = 0
    /\ mails = <<>>
    /\ calls = <<>>
    /\ now = 0
    /\ lookup = NoLookup

NextRegistry ==
    \/ Boot
    \/ \E name \in Names \cup {UnknownName} : GetDriver(name)
    \/ GetDefaultDriver

SpecRegistry == InitRegistry /\ [][NextRegistry]_vars

(***************************************************************************)
(* Mail                                                                    *)
(***************************************************************************)
StringBody(text) ==
    [kind |-> "string", text |-> text, view |-> "", hasData |-> FALSE, data |-> EmptyMap]

\* { view, data }; hasData = FALSE is a descriptor without data
TemplateBody(view, hasData, data) ==
    [kind |-> "template", text |-> "", view |-> view, hasData |-> hasData, data |-> data]

Bodies == {StringBody("Hello"),
           TemplateBody("x", FALSE, EmptyMap),
           TemplateBody("x", TRUE, Spread(One("a", DUser("1")), One("locales", DUser("mine"))))}

\* new Mail({ to, from, subject, body, attachments })
Mail(to, from, subject, body, attachments) ==
    [to |-> to, from |-> from, subject |-> subject, body |-> body, attachments |-> attachments]

NewMails == {Mail("a@b.com", "c@d.com", "Hi", b, <<"f.txt">>) : b \in Bodies}

\* mail.setBody(body)
SetBody(mail, body) == [mail EXCEPT !.body = body]

(***************************************************************************)
(* MailService.addLocalesData                                              *)
(***************************************************************************)
\* a locale injection that spreads the data after locales, so that a locales
\* key of the data wins ({ locales, ...data })
AddLocalesDataCallerWins(mail, config, date) ==
    LET mailBody == mail.body
    IN  IF mailBody.kind = "template"
        THEN LET locales == Spread(config, One("date", LDate(date)))
             IN  [mail |-> SetBody(mail,
                     [mailBody EXCEPT
                        !.hasData = TRUE,
                        !.data = Spread(One("locales", DLocales(locales)),
                                        IF mailBody.hasData THEN mailBody.data
                                                            ELSE SpreadArray(<<>>))]),
                  localesConfig |-> config]
        ELSE [mail |-> mail, localesConfig |-> config]

\* a locale injection that leaves a template without data as it is
AddLocalesDataSkipsAbsent(mail, config, date) ==
    LET mailBody == mail.body
    IN  IF mailBody.kind = "template" /\ mailBody.hasData
        THEN LET locales == Spread(config, One("date", LDate(date)))
             IN  [mail |-> SetBody(mail,
                     [mailBody EXCEPT
                        !.data = Spread(mailBody.data,
                                        One("locales", DLocales(locales)))]),
                  localesConfig |-> config]
        ELSE [mail |-> mail, localesConfig |-> config]

\* a locale injection that forgets the template's own data
AddLocalesDataNoData(mail, config, date) ==
    LET mailBody == mail.body
    IN  IF mailBody.kind = "template"
        THEN LET locales == Spread(config, One("date", LDate(date)))
             IN  [mail |-> SetBody(mail,
                     [mailBody EXCEPT
                        !.hasData = TRUE,
                        !.data = One("locales", DLocales(locales))]),
                  localesConfig |-> config]
        ELSE [mail |-> mail, localesConfig |-> config]

\* a locale injection that writes the date into this.localesConfig itself
\* (Object.assign(this.localesConfig, { date }) in place of the spread)
AddLocalesDataInPlace(mail, config, date) ==
    LET mailBody == mail.body
    IN  IF mailBody.kind = "template"
        THEN LET locales == Spread(config, One("date", LDate(date)))
             IN  [mail |-> SetBody(mail,
                     [mailBody EXCEPT
                        !.hasData = TRUE,
                        !.data = Spread(IF mailBody.hasData THEN mailBody.data
                                                            ELSE SpreadArray(<<>>),
                                        One("locales", DLocales(locales)))]),
                  localesConfig |-> locales]
        ELSE [mail |-> mail, localesConfig |-> config]

\* The result is the two objects the method could write: the caller's mail and
\* this.localesConfig.  The locales object is a spread, so a new object.
AddLocalesData(mail, config, date) ==
    LET mailBody == mail.body
    IN  IF mailBody.kind = "template"
        THEN LET locales == Spread(config, One("date", LDate(date)))
             IN  [mail |-> SetBody(mail,
                     [mailBody EXCEPT
                        !.hasData = TRUE,
                        !.data = Spread(IF mailBody.hasData THEN mailBody.data
                                                            ELSE SpreadArray(<<>>),
                                        One("locales", DLocales(locales)))]),
                  localesConfig |-> config]
        ELSE [mail |-> mail, localesConfig |-> config]

(***************************************************************************)
(* A send call                                                             *)
(***************************************************************************)
\* the call as send() is entered
NewCall(m, driver, mail) ==
    [pc |-> "entered", mail |-> m, driver |-> driver, name |-> "", inst |-> 0,
     date |-> now,              \* the clock as send() is entered
     body0 |-> mail.body,       \* the mail's body as send() is entered
     registered |-> DOMAIN adapters,    \* the registered names as send() is entered
     to |-> "", from |-> "", subject |-> "",
     rendered |-> <<>>,         \* the arguments of this call's view.render calls
     bodyString |-> "",         \* the resolved body
     info |-> <<>>,             \* this call's logger.info records
     invoked |-> <<>>,          \* the adapters whose send this call invoked
     raised |-> NoError,        \* the failure raised under this call
     logged |-> <<>>,           \* this call's logger.error arguments
     error |-> NoError]         \* the value the returned promise rejected with

\* a catch that throws a new error in place of the one it caught
CatchWrapped(call, err) ==
    [call EXCEPT !.pc = "rejected", !.logged = Append(@, err),
                 !.error = [type |-> "MailError", detail |-> err.detail]]

\* a catch that logs and does not throw again
CatchSwallowed(call, err) ==
    [call EXCEPT !.pc = "resolved", !.logged = Append(@, err)]

\* catch (err) { this.logger.error(err); throw err; }
Catch(call, err) ==
    [call EXCEPT !.pc = "rejected", !.logged = Append(@, err), !.error = err]

\* the string the renderer answers with
RenderOutput(view) == "<html>"

\* a body resolution that hands every body to the renderer
GenerateBodyStringAlwaysRenders(call, body) ==
    [call EXCEPT !.pc = "awaitRender",
                 !.rendered = Append(@, [view |-> body.view,
                                         data |-> IF body.hasData THEN body.data
                                                                  ELSE EmptyMap])]

\* BaseMailAdapter.generateBodyString, up to its await
GenerateBodyString(call, body) ==
    IF body.kind = "string"
    THEN [call EXCEPT !.pc = "bodyReady", !.bodyString = body.text]
    ELSE [call EXCEPT !.pc = "awaitRender",
                      !.rendered = Append(@, [view |-> body.view,
                                              data |-> IF body.hasData THEN body.data
                                                                       ELSE EmptyMap])]

\* JSON.stringify of the local driver's record: the members in order
JStr(k, s) == [key |-> k, str |-> s, list |-> <<>>]
JList(k, l) == [key |-> k, str |-> "", list |-> l]

JsonStringify(o) ==
    <<JStr("to", o.to), JStr("from", o.from), JStr("subject", o.subject),
      JStr("body", o.body), JList("attachments", o.attachments)>>

\* LocalMailDriver.send up to its await: to, from and subject are read
LocalSendStart(call, mail) ==
    GenerateBodyString([call EXCEPT !.to = mail.to, !.from = mail.from,
                                    !.subject = mail.subject],
                       mail.body)

\* a local driver that logs the mail's body member and not the awaited string
LocalSendFinishRawBody(call, mail) ==
    [call EXCEPT !.pc = "resolved",
                 !.info = Append(@, JsonStringify([to |-> call.to, from |-> call.from,
                                                   subject |-> call.subject,
                                                   body |-> "[object Object]",
                                                   attachments |-> mail.attachments]))]

\* LocalMailDriver.send after its await: attachments are read, the record logged
LocalSendFinish(call, mail) ==
    [call EXCEPT !.pc = "resolved",
                 !.info = Append(@, JsonStringify([to |-> call.to, from |-> call.from,
                                                   subject |-> call.subject,
                                                   body |-> call.bodyString,
                                                   attachments |-> mail.attachments]))]

\* ResendMailDriver.send: resolves the body, then posts it
ResendSendStart(call, mail) == GenerateBodyString(call, mail.body)

ResendSendPost(call, mail) == [call EXCEPT !.pc = "awaitTransport"]

\* adapter.send(mail), up to its first await
AdapterSend(call, inst, mail) ==
    LET c == [call EXCEPT !.inst = inst, !.invoked = Append(@, inst)]
    IN  IF instances[inst].obj.driver = "LocalMailDriver"
        THEN LocalSendStart(c, mail)
        ELSE ResendSendStart(c, mail)

\* a send that falls back to the default driver when the name is unknown
ServiceSendFallback(call, mail) ==
    LET name == IF call.driver = NoArg THEN mailConfig.default ELSE call.driver
        asked == GetAdapter(adapters, name)
        found == IF asked.ok THEN asked ELSE GetAdapter(adapters, mailConfig.default)
        c == [call EXCEPT !.name = name]
    IN  IF found.ok THEN AdapterSend(c, found.inst, mail)
                    ELSE Catch([c EXCEPT !.raised = found.error], found.error)

\* a send that dispatches to the default driver whatever name is given
ServiceSendIgnoresName(call, mail) ==
    LET name == IF call.driver = NoArg THEN mailConfig.default ELSE call.driver
        found == GetAdapter(adapters, mailConfig.default)
        c == [call EXCEPT !.name = name]
    IN  IF found.ok THEN AdapterSend(c, found.inst, mail)
                    ELSE Catch([c EXCEPT !.raised = found.error], found.error)

\* MailService.send, up to its await
ServiceSend(call, mail) ==
    LET name == IF call.driver = NoArg THEN mailConfig.default ELSE call.driver
        found == GetAdapter(adapters, name)
        c == [call EXCEPT !.name = name]
    IN  IF found.ok THEN AdapterSend(c, found.inst, mail)
                    ELSE Catch([c EXCEPT !.raised = found.error], found.error)

\* a send that resolves the driver first and injects the locale data only
\* when the driver is found
SendOnResolveFirst(hp, m, driver) ==
    /\ Len(calls) < MaxSends
    /\ LET name == IF driver = NoArg THEN mailConfig.default ELSE driver
           done == IF GetAdapter(adapters, name).ok
                   THEN AddLocalesData(hp[m], localesConfig, now)
                   ELSE [mail |-> hp[m], localesConfig |-> localesConfig]
       IN  /\ mails' = [hp EXCEPT ![m] = done.mail]
           /\ localesConfig' = done.localesConfig
           /\ calls' = Append(calls, ServiceSend(NewCall(m, driver, hp[m]), done.mail))
    /\ now' = now + 1
    /\ UNCHANGED <<mailConfig, adapters, instances, boots, lookup>>

\* send(mail, driver) on the mail object m of the heap hp
SendOn(hp, m, driver) ==
    /\ Len(calls) < MaxSends
    /\ LET done == AddLocalesData(hp[m], localesConfig, now)
       IN  /\ mails' = [hp EXCEPT ![m] = done.mail]
           /\ localesConfig' = done.localesConfig
           /\ calls' = Append(calls, ServiceSend(NewCall(m, driver, hp[m]), done.mail))
    /\ now' = now + 1
    /\ UNCHANGED <<mailConfig, adapters, instances, boots, lookup>>

\* the caller builds a Mail and sends it
SendNew(mail, driver) == SendOn(Append(mails, mail), Len(mails) + 1, driver)

\* the caller sends a Mail it has sent before
SendAgain(m, driver) == SendOn(mails, m, driver)

\* adapter.send after the body is resolved
AdapterSendRest(call, mail) ==
    IF instances[call.inst].obj.driver = "LocalMailDriver"
    THEN LocalSendFinish(call, mail)
    ELSE ResendSendPost(call, mail)

\* view.render resolves: generateBodyString returns its string and the adapter
\* goes on in the same run of microtasks
RenderResolve(c) ==
    /\ calls[c].pc = "awaitRender"
    /\ calls' = [calls EXCEPT ![c] =
                    AdapterSendRest([@ EXCEPT !.bodyString = RenderOutput(@.rendered[1].view)],
                                    mails[@.mail])]
    /\ UNCHANGED <<mailConfig, localesConfig, adapters, instances, boots, mails, now, lookup>>

\* view.render rejects: nothing between it and the service catches
RenderReject(c, err) ==
    /\ calls[c].pc = "awaitRender"
    /\ calls' = [calls EXCEPT ![c] = Catch([@ EXCEPT !.raised = err], err)]
    /\ UNCHANGED <<mailConfig, localesConfig, adapters, instances, boots, mails, now, lookup>>

\* a string body: the await of generateBodyString ends once the caller's
\* synchronous code has run
AdapterContinue(c) ==
    /\ calls[c].pc = "bodyReady"
    /\ calls' = [calls EXCEPT ![c] = AdapterSendRest(@, mails[@.mail])]
    /\ UNCHANGED <<mailConfig, localesConfig, adapters, instances, boots, mails, now, lookup>>

TransportResolve(c) ==
    /\ calls[c].pc = "awaitTransport"
    /\ calls' = [calls EXCEPT ![c] = [@ EXCEPT !.pc = "resolved"]]
    /\ UNCHANGED <<mailConfig, localesConfig, adapters, instances, boots, mails, now, lookup>>

TransportReject(c, err) ==
    /\ calls[c].pc = "awaitTransport"
    /\ calls' = [calls EXCEPT ![c] = Catch([@ EXCEPT !.raised = err], err)]
    /\ UNCHANGED <<mailConfig, localesConfig, adapters, instances, boots, mails, now, lookup>>

(***************************************************************************)
(* The service                                                             *)
(***************************************************************************)
Init ==
    /\ mailConfig = ReadmeConfig
    /\ localesConfig = LocaleConfig
    /\ adapters = EmptyMap
    /\ instances = <<>>
    /\ boots = 0
    /\ mails = <<>>
    /\ calls = <<>>
    /\ now = 0
    /\ lookup = NoLookup

DriverArgs == {NoArg, "resend", UnknownName}

\* the names looked up beside the default one (SpecRegistry looks up every name)
LookupNames == {UnknownName}

Next ==
    \/ Boot
    \/ \E name \in LookupNames : GetDriver(name)
    \/ GetDefaultDriver
    \/ \E mail \in NewMails, driver \in DriverArgs : SendNew(mail, driver)
    \/ \E m \in 1..Len(mails), driver \in DriverArgs : SendAgain(m, driver)
    \/ \E c \in 1..Len(calls) : RenderResolve(c)
    \/ \E c \in 1..Len(calls), err \in RenderErrors : RenderReject(c, err)
    \/ \E c \in 1..Len(calls) : AdapterContinue(c)
    \/ \E c \in 1..Len(calls) : TransportResolve(c)
    \/ \E c \in 1..Len(calls), err \in TransportErrors : TransportReject(c, err)

Spec == Init /\ [][Next]_vars

(***************************************************************************)
(* Properties of the registry                                              *)
(***************************************************************************)
Entry(i) == mailConfig.drivers[i]

ConfigNames == {Entry(i).name : i \in 1..Len(mailConfig.drivers)}

\* the first entry of the configuration with this name
FirstEntry(name) ==
    CHOOSE i \in 1..Len(mailConfig.drivers) :
        /\ Entry(i).name = name
        /\ \A j \in 1..(i - 1) : Entry(j).name # name

\* C1: after boot(), getDriver(name) of a configured name returns the adapter
\* object that boot() constructed from the entry of that name (the first one,
\* should the configuration repeat a name) with that entry's constructor and
\* options; getDriver of any other name fails; getDefaultDriver() returns what
\* getDriver(config.default) returns.
C1_GetDriverReturnsBooted ==
    boots > 0 =>
        /\ \A name \in Names \cup {UnknownName} :
              IF name \in ConfigNames
              THEN /\ getDriver(name).ok
                   /\ getDriver(name).inst \in 1..Len(instances)
                   /\ LET made == instances[getDriver(name).inst]
                          e == Entry(FirstEntry(name))
                      IN  /\ made.entry = FirstEntry(name)
                          /\ made.obj.driver = e.driver
                          /\ made.arg = e.options
              ELSE /\ ~getDriver(name).ok
                   /\ getDriver(name).error = AdapterException(name)
        /\ getDefaultDriver = getDriver(mailConfig.default)
        /\ lookup.ok => lookup.inst \in {adapters[n] : n \in DOMAIN adapters}

\* a lookup after boot returned the adapter of the second of two entries
C1_Witness ==
    /\ boots > 0
    /\ Len(mailConfig.drivers) = 2
    /\ Entry(1).name # Entry(2).name
    /\ Entry(2).options # EmptyObject
    /\ lookup.ok
    /\ instances[lookup.inst].entry = 2

\* C2: after any number of boot() calls the registry holds one adapter per
\* configured name, the one registered first, and each adapter was constructed
\* once (no adapter object is constructed for a registration that is ignored).
C2_BootConstructsOnce ==
    boots > 0 =>
        /\ DOMAIN adapters = ConfigNames
        /\ \A name \in ConfigNames :
              /\ instances[adapters[name]].entry = FirstEntry(name)
              /\ instances[adapters[name]].boot = 1
        /\ Len(instances) = Cardinality(ConfigNames)

\* C9: after boot(), getOptions() of the adapter registered under an entry's
\* name returns that entry's options.
C9_GetOptionsReturnsOptions ==
    boots > 0 =>
        \A name \in ConfigNames :
            GetOptions(instances[adapters[name]].obj) = Entry(FirstEntry(name)).options

(***************************************************************************)
(* Properties of send                                                      *)
(***************************************************************************)
Call(c) == calls[c]

IsLocal(c) == Call(c).inst # 0 /\ instances[Call(c).inst].obj.driver = "LocalMailDriver"

\* the data of the template body the call was entered with
Data0(c) == IF Call(c).body0.hasData THEN Call(c).body0.data ELSE EmptyMap

\* C3: when the renderer fails under a send of a template-bodied mail, the
\* promise of send is rejected with the renderer's own error and logger.error
\* was invoked once for that send, with that error.
C3_RenderFailureRejects ==
    \A c \in 1..Len(calls) :
        Call(c).raised \in RenderErrors =>
            /\ Call(c).body0.kind = "template"
            /\ Call(c).pc = "rejected"
            /\ Call(c).error = Call(c).raised
            /\ Call(c).logged = <<Call(c).raised>>

\* the renderer failed under a send through the local driver
C3_Witness ==
    \E c \in 1..Len(calls) :
        /\ Call(c).raised \in RenderErrors
        /\ IsLocal(c)
        /\ Call(c).pc = "rejected"

\* C4: every failure raised under a send (unknown driver, renderer, transport)
\* is passed to logger.error and is the value the promise rejects with; a send
\* resolves only when nothing failed, and rejects only with a raised failure.
C4_NoFailureSwallowed ==
    \A c \in 1..Len(calls) :
        /\ Call(c).raised # NoError =>
              /\ Call(c).pc = "rejected"
              /\ Call(c).logged = <<Call(c).raised>>
              /\ Call(c).error = Call(c).raised
        /\ Call(c).raised = NoError =>
              /\ Call(c).pc # "rejected"
              /\ Call(c).logged = <<>>
              /\ Call(c).error = NoError

\* a transport failure and an unknown driver, each rejected and logged
C4_Witness ==
    \E c, d \in 1..Len(calls) :
        /\ Call(c).raised \in TransportErrors
        /\ Call(c).pc = "rejected"
        /\ Call(d).raised = AdapterException(UnknownName)
        /\ Call(d).pc = "rejected"

\* C5: a send whose driver name (the given one, or the default when none is
\* given) is not registered as send is entered - every send before boot(), and
\* a send of an unknown name after it - fails with the unresolved-driver
\* failure and invokes no adapter's send.
C5_UnregisteredDriverFails ==
    \A c \in 1..Len(calls) :
        /\ Call(c).name = IF Call(c).driver = NoArg THEN mailConfig.default
                                                    ELSE Call(c).driver
        /\ Call(c).name \notin Call(c).registered =>
              /\ Call(c).pc = "rejected"
              /\ Call(c).error = AdapterException(Call(c).name)
              /\ Call(c).invoked = <<>>
              /\ Call(c).rendered = <<>>

\* a send without a name before boot() and a send of an unknown name after it
C5_Witness ==
    \E c, d \in 1..Len(calls) :
        /\ Call(c).registered = {}
        /\ Call(c).driver = NoArg
        /\ Call(c).pc = "rejected"
        /\ Call(d).registered # {}
        /\ Call(d).driver = UnknownName
        /\ Call(d).pc = "rejected"

\* C6 as claimed: the renderer is invoked with the view and with data that
\* holds every key of the original data with its original value, and a locales
\* key holding every entry of the locale configuration plus this send's date.
C6_RenderDataKeepsEveryEntry ==
    \A c \in 1..Len(calls) :
        Call(c).rendered # <<>> =>
            LET r == Call(c).rendered[1]
            IN  /\ r.view = Call(c).body0.view
                /\ \A k \in DOMAIN Data0(c) :
                      k \in DOMAIN r.data /\ r.data[k] = Data0(c)[k]
                /\ "locales" \in DOMAIN r.data
                /\ r.data["locales"].tag = "locales"
                /\ \A k \in DOMAIN localesConfig :
                      /\ k \in DOMAIN r.data["locales"].loc
                      /\ r.data["locales"].loc[k] = localesConfig[k]
                /\ "date" \in DOMAIN r.data["locales"].loc
                /\ r.data["locales"].loc["date"] = LDate(Call(c).date)

\* C6 as amended: a send of a template-bodied mail whose driver is resolved
\* invokes the renderer once, with the view and with data that holds every key
\* of the original data other than locales with its original value, and a
\* locales key holding every entry of the locale configuration other than date,
\* and a date entry that is this send's date.
C6_RenderDataKeepsOtherEntries ==
    \A c \in 1..Len(calls) :
        /\ (Call(c).body0.kind = "template" /\ Call(c).inst # 0) => Len(Call(c).rendered) = 1
        /\ Call(c).rendered # <<>> =>
            LET r == Call(c).rendered[1]
            IN  /\ Call(c).body0.kind = "template"
                /\ r.view = Call(c).body0.view
                /\ \A k \in (DOMAIN Data0(c)) \ {"locales"} :
                      k \in DOMAIN r.data /\ r.data[k] = Data0(c)[k]
                /\ "locales" \in DOMAIN r.data
                /\ r.data["locales"].tag = "locales"
                /\ \A k \in (DOMAIN localesConfig) \ {"date"} :
                      /\ k \in DOMAIN r.data["locales"].loc
                      /\ r.data["locales"].loc[k] = localesConfig[k]
                /\ "date" \in DOMAIN r.data["locales"].loc
                /\ r.data["locales"].loc["date"] = LDate(Call(c).date)

\* the renderer was invoked for a template whose data has a key a
C6_Witness ==
    \E c \in 1..Len(calls) :
        /\ Call(c).rendered # <<>>
        /\ "a" \in DOMAIN Data0(c)
        /\ "a" \in DOMAIN Call(c).rendered[1].data
        /\ "appName" \in DOMAIN Call(c).rendered[1].data["locales"].loc

\* C7: a send of a string-bodied mail through the local driver is not
\* rejected, never invokes the renderer, and once resolved has logged one
\* record: the mail's to, from, subject and attachments, and the mail's string
\* as the body.
C7_LocalStringBodyLogged ==
    \A c \in 1..Len(calls) :
        (IsLocal(c) /\ Call(c).body0.kind = "string") =>
            /\ Call(c).pc \in {"bodyReady", "resolved"}
            /\ Call(c).rendered = <<>>
            /\ Call(c).error = NoError
            /\ Call(c).pc = "bodyReady" => Call(c).info = <<>>
            /\ Call(c).pc = "resolved" =>
                 Call(c).info =
                    <<JsonStringify([to |-> mails[Call(c).mail].to,
                                     from |-> mails[Call(c).mail].from,
                                     subject |-> mails[Call(c).mail].subject,
                                     body |-> Call(c).body0.text,
                                     attachments |-> mails[Call(c).mail].attachments])>>

\* a string-bodied mail was sent through the local driver and logged
C7_Witness ==
    \E c \in 1..Len(calls) :
        /\ IsLocal(c)
        /\ Call(c).body0.kind = "string"
        /\ Call(c).pc = "resolved"
        /\ Len(Call(c).info) = 1
        /\ Call(c).info[1][4] = JStr("body", "Hello")

\* C8 as claimed: no send through the local driver is rejected.
C8_LocalNeverRejects ==
    \A c \in 1..Len(calls) : IsLocal(c) => Call(c).pc # "rejected"

\* C8 as amended: a send through the local driver is rejected only when the
\* renderer fails for a template body, and then with the renderer's error; with
\* a string body, or once the renderer has answered, it resolves.
C8_LocalRejectsOnlyOnRenderFailure ==
    \A c \in 1..Len(calls) :
        IsLocal(c) =>
            /\ Call(c).pc \in {"bodyReady", "awaitRender", "resolved", "rejected"}
            /\ Call(c).pc = "rejected" =>
                  /\ Call(c).body0.kind = "template"
                  /\ Call(c).raised \in RenderErrors
                  /\ Call(c).error = Call(c).raised
            /\ Call(c).body0.kind = "string" => Call(c).pc \in {"bodyReady", "resolved"}
            /\ Call(c).pc = "resolved" => Call(c).raised = NoError /\ Len(Call(c).info) = 1

\* a template-bodied mail went through the local driver and its renderer answered
C8_Witness ==
    \E c, d \in 1..Len(calls) :
        /\ IsLocal(c)
        /\ Call(c).body0.kind = "template"
        /\ Call(c).pc = "resolved"
        /\ IsLocal(d)
        /\ Call(d).pc = "rejected"

\* C10: once boot() has been called, a step that is not a boot() - a send, a
\* step of a send in flight, a getDriver or a getDefaultDriver - leaves every
\* registry entry and the locale configuration as they were.
C10_SendsLeaveRegistryAndLocales ==
    [][(boots > 0 /\ boots' = boots) =>
          (adapters' = adapters /\ localesConfig' = localesConfig)]_vars

\* after boot(), two sends of template-bodied mails are in flight together and
\* a lookup has been made
C10_Witness ==
    /\ boots > 0
    /\ Len(calls) >= 2
    /\ \A c \in 1..2 : /\ Call(c).pc = "awaitRender"
                       /\ Call(c).registered # {}
    /\ lookup.ok
    /\ localesConfig = LocaleConfig

\* C11: a send invokes the send of at most one adapter, at most once: the one
\* registered under the given name, or under the default name when none is
\* given, and no other; a send that has failed has not invoked it again.
C11_OneAdapterInvokedOnce ==
    \A c \in 1..Len(calls) :
        /\ Len(Call(c).invoked) <= 1
        /\ Call(c).name = IF Call(c).driver = NoArg THEN mailConfig.default
                                                    ELSE Call(c).driver
        /\ Call(c).name \in Call(c).registered =>
              /\ Call(c).name \in DOMAIN adapters
              /\ Call(c).invoked = <<adapters[Call(c).name]>>
              /\ Call(c).inst = adapters[Call(c).name]
        /\ Call(c).name \notin Call(c).registered => Call(c).invoked = <<>>
        /\ Call(c).pc = "rejected" => Len(Call(c).logged) = 1

\* a send by name failed in the transport after one invocation of that adapter,
\* and a send without a name went to the default adapter
C11_Witness ==
    \E c, d \in 1..Len(calls) :
        /\ Call(c).driver = "resend"
        /\ Call(c).pc = "rejected"
        /\ Call(c).raised \in TransportErrors
        /\ Call(c).invoked = <<adapters["resend"]>>
        /\ Call(d).driver = NoArg
        /\ Call(d).invoked = <<adapters[mailConfig.default]>>
        /\ adapters["resend"] # adapters[mailConfig.default]

\* C12: a send of a template-bodied mail without data treats the data as an
\* empty mapping: the mail keeps its view and gets a data mapping whose only
\* key is locales, that is what the renderer is handed when the driver is
\* resolved, and the send fails only for an unregistered driver or a failure
\* of the renderer or the transport.
C12_AbsentDataIsEmptyMapping ==
    \A c \in 1..Len(calls) :
        (Call(c).body0.kind = "template" /\ ~Call(c).body0.hasData) =>
            /\ mails[Call(c).mail].body.kind = "template"
            /\ mails[Call(c).mail].body.view = Call(c).body0.view
            /\ mails[Call(c).mail].body.hasData
            /\ DOMAIN mails[Call(c).mail].body.data = {"locales"}
            /\ Call(c).inst # 0 =>
                  /\ Len(Call(c).rendered) = 1
                  /\ Call(c).rendered[1].view = Call(c).body0.view
                  /\ DOMAIN Call(c).rendered[1].data = {"locales"}
            /\ Call(c).pc = "rejected" =>
                  \/ /\ Call(c).name \notin Call(c).registered
                     /\ Call(c).raised = AdapterException(Call(c).name)
                  \/ /\ Call(c).inst # 0
                     /\ Call(c).raised \in RenderErrors \cup TransportErrors

\* a template without data was sent through the local driver and rendered
C12_Witness ==
    \E c \in 1..Len(calls) :
        /\ Call(c).body0.kind = "template"
        /\ ~Call(c).body0.hasData
        /\ IsLocal(c)
        /\ Call(c).pc = "resolved"
        /\ DOMAIN Call(c).rendered[1].data = {"locales"}

\* C13: send writes the locale data into the caller's own mail object before
\* it resolves the driver: whatever became of the send - also when it failed
\* for an unregistered driver - a template-bodied mail is no longer as it was
\* given and carries a locales key built at or after that send; a
\* string-bodied mail is as it was given.
C13_MailChangedEvenOnFailure ==
    \A c \in 1..Len(calls) :
        LET body == mails[Call(c).mail].body
        IN  /\ Call(c).body0.kind = "template" =>
                  /\ body # Call(c).body0
                  /\ body.hasData
                  /\ "locales" \in DOMAIN body.data
                  /\ body.data["locales"].tag = "locales"
                  /\ body.data["locales"].loc["date"].tag = "date"
                  /\ body.data["locales"].loc["date"].t >= Call(c).date
            /\ Call(c).body0.kind = "string" => body = Call(c).body0

\* before boot(), a send of a template-bodied mail that carried no locale data
\* failed for its driver, and so did a send of a string-bodied mail
C13_Witness ==
    \E c, d \in 1..Len(calls) :
        /\ Call(c).body0.kind = "template"
        /\ ~Call(c).body0.hasData
        /\ Call(c).registered = {}
        /\ Call(c).pc = "rejected"
        /\ Call(c).error = AdapterException(Call(c).name)
        /\ "locales" \in DOMAIN mails[Call(c).mail].body.data
        /\ Call(d).body0.kind = "string"
        /\ Call(d).pc = "rejected"

\* the last send of the mail object m
LastSend(m) ==
    CHOOSE c \in 1..Len(calls) :
        /\ Call(c).mail = m
        /\ \A d \in 1..Len(calls) : Call(d).mail = m => d <= c

\* C14: after a send of a template-bodied mail, data.locales is the value the
\* service built at the last send of that mail - the entries of the locale
\* configuration other than date, and the date of that send - whatever locales
\* key the caller supplied and whatever date entry the configuration has; every
\* other data key has its value, and the data keys are those the mail was given
\* plus locales, so a second send of the mail leaves the keys as they are.
C14_LocalesAndDateAreReserved ==
    \A c \in 1..Len(calls) :
        Call(c).body0.kind = "template" =>
            LET data == mails[Call(c).mail].body.data
                loc == data["locales"].loc
            IN  /\ DOMAIN data = (DOMAIN Data0(c)) \cup {"locales"}
                /\ \A k \in (DOMAIN Data0(c)) \ {"locales"} : data[k] = Data0(c)[k]
                /\ data["locales"].tag = "locales"
                /\ DOMAIN loc = (DOMAIN localesConfig) \cup {"date"}
                /\ \A k \in (DOMAIN localesConfig) \ {"date"} : loc[k] = localesConfig[k]
                /\ loc["date"] = LDate(Call(LastSend(Call(c).mail)).date)

\* a mail whose data has a locales key of the caller's was sent twice, under a
\* locale configuration that has a date entry
C14_Witness ==
    \E c, d \in 1..Len(calls) :
        /\ c < d
        /\ Call(c).mail = Call(d).mail
        /\ "locales" \in DOMAIN Data0(c)
        /\ Data0(c)["locales"] = DUser("mine")
        /\ Data0(d)["locales"].tag = "locales"
        /\ "date" \in DOMAIN localesConfig
        /\ mails[Call(c).mail].body.data["locales"].loc["date"] = LDate(Call(d).date)
        /\ DOMAIN Data0(d) = DOMAIN mails[Call(c).mail].body.data

====
